---- MODULE Spec2Model ----
(***************************************************************************)
(* Model of lgit (src/commands.py): the byte layout of .lgit/index and the *)
(* commands add, rm, commit and status that read and rewrite it in place.  *)
(* The index file is a sequence of one-character strings; every seek and   *)
(* write of the code is reproduced at its byte offset.                     *)
(* Spec runs the commands one after another; SpecScenario follows one path *)
(* through add, commit, edit and add; SpecSameMs lets a commit reuse the   *)
(* identifier of the one before it; SpecAuthor adds lgit config;           *)
(* SpecProcesses splits an add at its read of the index; SpecDelete lets   *)
(* working files disappear outside lgit.                                   *)
(***************************************************************************)
EXTENDS Integers, Sequences, FiniteSets, TLC

VARIABLES
    index,      \* bytes of .lgit/index
    wt,         \* working tree: path -> content, or Absent
    objects,    \* .lgit/objects: digest character -> content stored, or Absent
    commits,    \* .lgit/commits: sequence of commit records, in creation order
    snapshots,  \* .lgit/snapshots: commit id -> bytes of the snapshot file
    config,     \* bytes of .lgit/config
    clock,      \* the last millisecond identifier handed out
    tracked,    \* paths added and not removed since, in order of that add
    lastOp,     \* the command that ran last and what it reported
    pending,    \* the add that has read the Index and not yet written to it
    steps       \* commands and edits performed so far

vars == <<index, wt, objects, commits, snapshots, config, clock, tracked, lastOp,
          pending, steps>>

----------------------------------------------------------------------------
(* Bounds of the model *)

MaxSteps == 4
NumContents == 2

----------------------------------------------------------------------------
(* Bytes *)

NUL == "0"
SP == " "
NL == "\n"

Absent == 0
Contents == 1..NumContents

Paths == { <<"a">>, <<"x", "a">>, <<"b">> }

\* a directory of the working tree
Dirs == { <<"d">> }

\* the modification time of a working file and the time of a status run, as
\* the character their 14-character renderings are made of
FileMtime == "8"
CurrentTime == "9"

Min(a, b) == IF a < b THEN a ELSE b
Max(a, b) == IF a > b THEN a ELSE b

Repeat(c, n) == [i \in 1..n |-> c]

\* Python slice s[a:b] for 0 <= a, 0 <= b
Slice(s, a, b) == IF a >= Min(b, Len(s)) THEN <<>> ELSE SubSeq(s, a + 1, Min(b, Len(s)))

\* Python slice s[a:]
SliceFrom(s, a) == Slice(s, a, Len(s))

\* bytes.endswith
EndsWith(s, suffix) ==
    /\ Len(suffix) <= Len(s)
    /\ SliceFrom(s, Len(s) - Len(suffix)) = suffix

\* file.write(data) at 0-based offset pos of a file opened for update:
\* bytes are overwritten in place, the file grows when the write passes its
\* end, and a gap left by a seek past the end reads as NUL bytes.
WriteAt(f, pos, data) ==
    IF Len(data) = 0 THEN f
    ELSE (IF pos <= Len(f) THEN SubSeq(f, 1, pos) ELSE f \o Repeat(NUL, pos - Len(f)))
         \o data
         \o (IF pos + Len(data) < Len(f) THEN SubSeq(f, pos + Len(data) + 1, Len(f))
             ELSE <<>>)

\* the 1-based positions of the newlines of f, in increasing order
RECURSIVE Ascending(_)
Ascending(S) ==
    IF S = {} THEN <<>>
    ELSE LET m == CHOOSE i \in S : \A j \in S : i <= j
         IN  <<m>> \o Ascending(S \ {m})

Newlines(f) == Ascending({i \in 1..Len(f) : f[i] = NL})

\* file.readlines(): the lines of f, each with its terminating newline; a
\* last line without newline is returned as it is.
readlines(f) ==
    LET nls == Newlines(f)
        n == Len(nls)
        last == IF n = 0 THEN 0 ELSE nls[n]
    IN  [k \in 1..n |-> SubSeq(f, (IF k = 1 THEN 0 ELSE nls[k - 1]) + 1, nls[k])]
        \o (IF last < Len(f) THEN << SubSeq(f, last + 1, Len(f)) >> ELSE <<>>)

\* str.split('\n'): the pieces between newlines, without the newlines; the
\* piece after the last newline (empty for a file ending in one) is included.
split(f) ==
    LET nls == Newlines(f)
        n == Len(nls)
        last == IF n = 0 THEN 0 ELSE nls[n]
    IN  [k \in 1..n |-> SubSeq(f, (IF k = 1 THEN 0 ELSE nls[k - 1]) + 1, nls[k] - 1)]
        \o << SubSeq(f, last + 1, Len(f)) >>

\* ''.join(contents)
RECURSIVE join(_)
join(ls) == IF ls = <<>> THEN <<>> ELSE Head(ls) \o join(Tail(ls))

----------------------------------------------------------------------------
(* External helpers of functions.py, by the widths the offsets of          *)
(* commands.py rely on                                                     *)

HexChar == <<"e", "f", "d">>

\* hashing_sha1_file: 40 hex characters, one digest per content
hashing_sha1(c) == Repeat(HexChar[c], 40)

\* format_mtime(file): 14 characters
format_mtime == Repeat(FileMtime, 14)

\* the first value of get_timestamp_of_current_time(): 14 characters
current_time == Repeat(CurrentTime, 14)

\* the blob a digest names in .lgit/objects/<2>/<38>
BlobKey(c) == HexChar[c]

empty_hash == Repeat(SP, 40)

----------------------------------------------------------------------------
(* execute_lgit_add *)

\* one pass of the loop over the lines read from the index: a line that ends
\* with the path gets the timestamp at the current position and the digest 42
\* bytes further on; any other line is skipped by its length.
AddLine(st, line, file, ts, hash_value) ==
    IF EndsWith(line, file \o <<NL>>)
    THEN [f |-> WriteAt(WriteAt(st.f, st.pos, ts), st.pos + Len(ts) + 42, hash_value),
          pos |-> st.pos + Len(ts) + 42 + Len(hash_value),
          added |-> TRUE]
    ELSE [st EXCEPT !.pos = st.pos + Len(line)]

RECURSIVE AddLoop(_, _, _, _, _)
AddLoop(st, lines, file, ts, hash_value) ==
    IF lines = <<>> THEN st
    ELSE AddLoop(AddLine(st, Head(lines), file, ts, hash_value),
                 Tail(lines), file, ts, hash_value)

\* the record appended for a path that matched no line
line_index(file, ts, hash_value) ==
    ts \o <<SP>> \o hash_value \o <<SP>> \o hash_value \o <<SP>> \o empty_hash
       \o <<SP>> \o file \o <<NL>>

\* the seeks and writes of execute_lgit_add._update_index on the file f,
\* made from the lines content_index that readlines returned
AddWrites(f, content_index, file, ts, hash_value) ==
    LET st == AddLoop([f |-> f, pos |-> 0, added |-> FALSE], content_index,
                      file, ts, hash_value)
    IN  IF st.added THEN st.f
        ELSE WriteAt(st.f, st.pos, line_index(file, ts, hash_value))

\* execute_lgit_add._update_index
AddUpdateIndex(f, file, ts, hash_value) ==
    AddWrites(f, readlines(f), file, ts, hash_value)

\* execute_lgit_add._add_file_to_lgit_database: the file is copied over
\* whatever is stored under its digest
AddFileToDatabase(objs, c) == [objs EXCEPT ![BlobKey(c)] = c]

NoReport == [op |-> "none", path |-> <<>>, ok |-> TRUE, id |-> 0, message |-> "",
             warning |-> FALSE, listed |-> <<>>,
             untracked |-> <<>>, staged |-> <<>>, unstaged |-> <<>>]

Track(seq, p) == IF \E i \in 1..Len(seq) : seq[i] = p THEN seq ELSE Append(seq, p)

Untrack(seq, p) == SelectSeq(seq, LAMBDA q : q # p)

\* lgit add <path> for a path that is a file of the working tree
Add(p) ==
    /\ wt[p] # Absent
    /\ LET sha1_value == hashing_sha1(wt[p])
           newIndex == AddUpdateIndex(index, p, format_mtime, sha1_value)
       IN  /\ index' = newIndex
           /\ objects' = AddFileToDatabase(objects, wt[p])
    /\ tracked' = Track(tracked, p)
    /\ lastOp' = [NoReport EXCEPT !.op = "add", !.path = p]
    /\ steps' = steps + 1
    /\ UNCHANGED <<pending, wt, commits, snapshots, config, clock>>

NoPending == [path |-> <<>>, content_index |-> <<>>, hash_value |-> <<>>]

\* lgit add <path> up to the readlines of _update_index: the blob is stored
\* and the Index is read
BeginAdd(p) ==
    /\ pending = NoPending
    /\ wt[p] # Absent
    /\ objects' = AddFileToDatabase(objects, wt[p])
    /\ pending' = [path |-> p, content_index |-> readlines(index),
                   hash_value |-> hashing_sha1(wt[p])]
    /\ lastOp' = [NoReport EXCEPT !.op = "add begun", !.path = p]
    /\ steps' = steps + 1
    /\ UNCHANGED <<index, wt, commits, snapshots, config, clock, tracked>>

\* the rest of that add: the seeks and writes, made from the lines it read,
\* on the Index as it is now
FinishAdd ==
    /\ pending # NoPending
    /\ index' = AddWrites(index, pending.content_index, pending.path, format_mtime,
                          pending.hash_value)
    /\ tracked' = Track(tracked, pending.path)
    /\ pending' = NoPending
    /\ lastOp' = [NoReport EXCEPT !.op = "add", !.path = pending.path]
    /\ steps' = steps + 1
    /\ UNCHANGED <<wt, objects, commits, snapshots, config, clock>>

\* that add is killed before it writes to the Index
KillAdd ==
    /\ pending # NoPending
    /\ pending' = NoPending
    /\ lastOp' = [NoReport EXCEPT !.op = "add killed", !.path = pending.path, !.ok = FALSE]
    /\ steps' = steps + 1
    /\ UNCHANGED <<index, wt, objects, commits, snapshots, config, clock, tracked>>

----------------------------------------------------------------------------
(* execute_lgit_rm *)

RemoveFirst(ls, line) ==
    LET i == CHOOSE k \in 1..Len(ls) : ls[k] = line /\ \A j \in 1..(k - 1) : ls[j] # line
    IN  SubSeq(ls, 1, i - 1) \o SubSeq(ls, i + 1, Len(ls))

\* the for loop over contents, which removes from the list it walks: after a
\* removal the iterator's next position skips the line that moved up.
RECURSIVE RmLoop(_, _, _, _)
RmLoop(contents, i, had_file, a_file) ==
    IF i > Len(contents) THEN [contents |-> contents, had_file |-> had_file]
    ELSE IF EndsWith(contents[i], a_file \o <<NL>>)
         THEN RmLoop(RemoveFirst(contents, contents[i]), i + 1, TRUE, a_file)
         ELSE RmLoop(contents, i + 1, had_file, a_file)

\* execute_lgit_rm._remove_file_index: readlines leaves the file position at
\* the end of the file, truncate(0) does not move it, and the write lands
\* there.
RemoveFileIndex(f, a_file) ==
    LET r == RmLoop(readlines(f), 1, FALSE, a_file)
    IN  [f |-> WriteAt(<<>>, Len(f), join(r.contents)), had_file |-> r.had_file]

\* Rm that also unlinks the blob of the removed file
RmUnlinkingBlob(p) ==
    /\ wt[p] # Absent
    /\ LET r == RemoveFileIndex(index, p)
       IN  /\ index' = r.f
           /\ wt' = IF r.had_file THEN [wt EXCEPT ![p] = Absent] ELSE wt
           /\ objects' = IF r.had_file THEN [objects EXCEPT ![BlobKey(wt[p])] = Absent]
                         ELSE objects
           /\ tracked' = IF r.had_file THEN Untrack(tracked, p) ELSE tracked
           /\ lastOp' = [NoReport EXCEPT !.op = "rm", !.path = p, !.ok = r.had_file]
    /\ steps' = steps + 1
    /\ UNCHANGED <<pending, commits, snapshots, config, clock>>

\* lgit rm <path> for a path that exists in the working tree
Rm(p) ==
    /\ wt[p] # Absent
    /\ LET r == RemoveFileIndex(index, p)
       IN  /\ index' = r.f
           /\ wt' = IF r.had_file THEN [wt EXCEPT ![p] = Absent] ELSE wt
           /\ tracked' = IF r.had_file THEN Untrack(tracked, p) ELSE tracked
           /\ lastOp' = [NoReport EXCEPT !.op = "rm", !.path = p, !.ok = r.had_file]
    /\ steps' = steps + 1
    /\ UNCHANGED <<pending, objects, commits, snapshots, config, clock>>

\* lgit rm <path> for a path that does not exist: fatal, nothing is opened
RmMissing(p) ==
    /\ wt[p] = Absent
    /\ lastOp' = [NoReport EXCEPT !.op = "rm", !.path = p, !.ok = FALSE]
    /\ steps' = steps + 1
    /\ UNCHANGED <<pending, index, wt, objects, commits, snapshots, config, clock, tracked>>

\* lgit rm <path> for a directory: fatal before the Index is opened
RmDirectory(d) ==
    /\ d \in Dirs
    /\ lastOp' = [NoReport EXCEPT !.op = "rm", !.path = d, !.ok = FALSE]
    /\ steps' = steps + 1
    /\ UNCHANGED <<pending, index, wt, objects, commits, snapshots, config, clock, tracked>>

----------------------------------------------------------------------------
(* execute_lgit_init._init_config and config_lgit *)

\* the value of the environment's LOGNAME, which init writes as it is
LOGNAME == <<"u">>

\* the names lgit config --author is given
Authors == { <<>>, <<"u">> }

\* lgit config --author <author>
ConfigLgit(author) ==
    /\ config' = author \o <<NL>>
    /\ lastOp' = [NoReport EXCEPT !.op = "config"]
    /\ steps' = steps + 1
    /\ UNCHANGED <<pending, index, wt, objects, commits, snapshots, clock, tracked>>

----------------------------------------------------------------------------
(* execute_lgit_commit *)

\* CommitLine with the seek before the write one byte short
CommitLineSeek96(st, line) ==
    LET hash_value == Slice(line, 56, 96)
        file_path == SliceFrom(line, 138)
    IN  [f |-> WriteAt(st.f, st.pos + 96, hash_value),
         pos |-> st.pos + 96 + Len(hash_value) + (Len(line) - 136),
         snap |-> st.snap \o hash_value \o <<SP>> \o file_path]

\* CommitLine writing a snapshot line only for a record that changed since
\* the previous commit
CommitLineOnlyChanged(st, line) ==
    LET hash_value == Slice(line, 56, 96)
        file_path == SliceFrom(line, 138)
    IN  [f |-> WriteAt(st.f, st.pos + 97, hash_value),
         pos |-> st.pos + 97 + Len(hash_value) + (Len(line) - 137),
         snap |-> IF Slice(line, 97, 137) = hash_value THEN st.snap
                  ELSE st.snap \o hash_value \o <<SP>> \o file_path]

\* one pass of the loop of _update_index_and_snapshot over a line of the
\* index: the 40 bytes at 56 go to the snapshot with the bytes from 138 on,
\* and are written back 97 bytes after the start of the line.
CommitLine(st, line) ==
    LET hash_value == Slice(line, 56, 96)
        file_path == SliceFrom(line, 138)
    IN  [f |-> WriteAt(st.f, st.pos + 97, hash_value),
         pos |-> st.pos + 97 + Len(hash_value) + (Len(line) - 137),
         snap |-> st.snap \o hash_value \o <<SP>> \o file_path]

RECURSIVE CommitLoop(_, _)
CommitLoop(st, lines) ==
    IF lines = <<>> THEN st
    ELSE CommitLoop(CommitLine(st, Head(lines)), Tail(lines))

\* execute_lgit_commit._update_index_and_snapshot
UpdateIndexAndSnapshot(f) ==
    CommitLoop([f |-> f, pos |-> 0, snap |-> <<>>], readlines(f))

\* str.strip('\n')
RECURSIVE strip(_)
strip(str) ==
    IF str = <<>> THEN str
    ELSE IF Head(str) = NL THEN strip(Tail(str))
    ELSE IF str[Len(str)] = NL THEN strip(SubSeq(str, 1, Len(str) - 1))
    ELSE str

\* the author _create_commit_object reads from the config file
Author(cfg) == strip(cfg)

\* execute_lgit_commit._create_commit_object: the commit is written whether
\* or not the author is empty, and the commit file is opened 'w'
CreateCommitObject(cs, id, author, message) ==
    [i \in DOMAIN cs \cup {id} |->
        IF i = id THEN [author |-> author, message |-> message] ELSE cs[i]]

\* the snapshot file is opened 'ab+': what is written is appended
AppendSnapshot(ss, id, data) ==
    [i \in DOMAIN ss \cup {id} |->
        IF i = id THEN (IF i \in DOMAIN ss THEN ss[i] ELSE <<>>) \o data ELSE ss[i]]

\* Commit that stops after the warning when the author is empty
CommitRequiringAuthor(id, message) ==
    /\ LET r == UpdateIndexAndSnapshot(index)
       IN  IF Author(config) = <<>>
           THEN UNCHANGED <<index, snapshots, commits>>
           ELSE /\ index' = r.f
                /\ snapshots' = AppendSnapshot(snapshots, id, r.snap)
                /\ commits' = CreateCommitObject(commits, id, Author(config), message)
    /\ clock' = id
    /\ lastOp' = [NoReport EXCEPT !.op = "commit", !.id = id, !.message = message,
                                  !.warning = (Author(config) = <<>>)]
    /\ steps' = steps + 1
    /\ UNCHANGED <<pending, wt, objects, config, tracked>>

\* lgit commit -m <message>, with id the millisecond timestamp of the call
Commit(id, message) ==
    /\ LET r == UpdateIndexAndSnapshot(index)
       IN  /\ index' = r.f
           /\ snapshots' = AppendSnapshot(snapshots, id, r.snap)
    /\ commits' = CreateCommitObject(commits, id, Author(config), message)
    /\ clock' = id
    /\ lastOp' = [NoReport EXCEPT !.op = "commit", !.id = id, !.message = message,
                                  !.warning = (Author(config) = <<>>)]
    /\ steps' = steps + 1
    /\ UNCHANGED <<pending, wt, objects, config, tracked>>

----------------------------------------------------------------------------
(* display_lgit_status *)

\* the loop of display_lgit_status._update_index: the first line whose bytes
\* from 138 on equal the path, with the file position reached by skipping the
\* lines before it; k = 0 when no line matches.
RECURSIVE StatusFind(_, _, _, _)
StatusFind(lines, k, pos, file) ==
    IF k > Len(lines) THEN [k |-> 0, pos |-> pos]
    ELSE IF SliceFrom(lines[k], 138) = file THEN [k |-> k, pos |-> pos]
         ELSE StatusFind(lines, k + 1, pos + Len(lines[k]) + 1, file)

\* StatusUpdateIndex writing the digest of the working file into stagedHash
\* as well
StatusUpdateIndexStaging(f, file, ts, hash_value) ==
    LET content_index == split(f)
        m == StatusFind(content_index, 1, 0, file)
    IN  IF m.k = 0 THEN [f |-> f, current_line |-> <<>>]
        ELSE [f |-> WriteAt(f, m.pos, ts \o <<SP>> \o hash_value \o <<SP>> \o hash_value),
              current_line |-> ts \o <<SP>> \o hash_value \o <<SP>>
                                  \o SliceFrom(content_index[m.k], 56)]

\* display_lgit_status._update_index: writes the timestamp and the digest of
\* the working file at the start of the matching line and returns that line
\* with the two fields replaced (the empty sequence for None).
StatusUpdateIndex(f, file, ts, hash_value) ==
    LET content_index == split(f)
        m == StatusFind(content_index, 1, 0, file)
    IN  IF m.k = 0 THEN [f |-> f, current_line |-> <<>>]
        ELSE [f |-> WriteAt(f, m.pos, ts \o <<SP>> \o hash_value),
              current_line |-> ts \o <<SP>> \o hash_value \o <<SP>>
                                  \o SliceFrom(content_index[m.k], 56)]

\* ClassifyFile with the staged test made against the working digest
ClassifyFileStagedAgainstWorking(st, file, ts, hash_value) ==
    LET u == StatusUpdateIndex(st.f, file, ts, hash_value)
        info_file == u.current_line
    IN  IF info_file # <<>>
        THEN [f |-> u.f,
              untracked |-> st.untracked,
              unstaged |-> IF Slice(info_file, 56, 96) # Slice(info_file, 15, 55)
                           THEN Append(st.unstaged, file) ELSE st.unstaged,
              staged |-> IF Slice(info_file, 97, 137) # Slice(info_file, 15, 55)
                         THEN Append(st.staged, file) ELSE st.staged]
        ELSE [st EXCEPT !.untracked = Append(st.untracked, file)]

\* ClassifyFile putting each file in front of those already in its bucket
ClassifyFilePrepending(st, file, ts, hash_value) ==
    LET u == StatusUpdateIndex(st.f, file, ts, hash_value)
        info_file == u.current_line
    IN  IF info_file # <<>>
        THEN [f |-> u.f,
              untracked |-> st.untracked,
              unstaged |-> IF Slice(info_file, 56, 96) # Slice(info_file, 15, 55)
                           THEN <<file>> \o st.unstaged ELSE st.unstaged,
              staged |-> IF Slice(info_file, 97, 137) # Slice(info_file, 56, 96)
                         THEN <<file>> \o st.staged ELSE st.staged]
        ELSE [st EXCEPT !.untracked = <<file>> \o st.untracked]

\* the body of the loop of _classify_files for one enumerated file
ClassifyFile(st, file, ts, hash_value) ==
    LET u == StatusUpdateIndex(st.f, file, ts, hash_value)
        info_file == u.current_line
    IN  IF info_file # <<>>
        THEN [f |-> u.f,
              untracked |-> st.untracked,
              unstaged |-> IF Slice(info_file, 56, 96) # Slice(info_file, 15, 55)
                           THEN Append(st.unstaged, file) ELSE st.unstaged,
              staged |-> IF Slice(info_file, 97, 137) # Slice(info_file, 56, 96)
                         THEN Append(st.staged, file) ELSE st.staged]
        ELSE [st EXCEPT !.untracked = Append(st.untracked, file)]

RECURSIVE ClassifyFiles(_, _, _, _)
ClassifyFiles(st, list_files, ts, tree) ==
    IF list_files = <<>> THEN st
    ELSE ClassifyFiles(ClassifyFile(st, Head(list_files), ts,
                                    hashing_sha1(tree[Head(list_files)])),
                       Tail(list_files), ts, tree)

\* get_files_skip_lgit: the files of the working tree, in the order of the
\* directory walk, which the program does not control
Enumerations(tree) ==
    LET files == {p \in Paths : tree[p] # Absent}
    IN  {s \in [1..Cardinality(files) -> files] :
            \A i, j \in 1..Cardinality(files) : i # j => s[i] # s[j]}

\* lgit status
Status(list_files) ==
    /\ list_files \in Enumerations(wt)
    /\ LET r == ClassifyFiles([f |-> index, untracked |-> <<>>, staged |-> <<>>,
                               unstaged |-> <<>>], list_files, current_time, wt)
       IN  /\ index' = r.f
           /\ lastOp' = [NoReport EXCEPT !.op = "status", !.listed = list_files,
                                         !.untracked = r.untracked,
                                         !.staged = r.staged, !.unstaged = r.unstaged]
    /\ steps' = steps + 1
    /\ UNCHANGED <<pending, wt, objects, commits, snapshots, config, clock, tracked>>

----------------------------------------------------------------------------
(* The user's editor: a file of the working tree is created or rewritten *)

WriteFile(p, c) ==
    /\ wt[p] # c
    /\ wt' = [wt EXCEPT ![p] = c]
    /\ lastOp' = [NoReport EXCEPT !.op = "write", !.path = p]
    /\ steps' = steps + 1
    /\ UNCHANGED <<pending, index, objects, commits, snapshots, config, clock, tracked>>

\* a file of the working tree is deleted outside lgit
DeleteFile(p) ==
    /\ wt[p] # Absent
    /\ wt' = [wt EXCEPT ![p] = Absent]
    /\ lastOp' = [NoReport EXCEPT !.op = "delete", !.path = p]
    /\ steps' = steps + 1
    /\ UNCHANGED <<pending, index, objects, commits, snapshots, config, clock, tracked>>

----------------------------------------------------------------------------

\* the repository after lgit init, in a directory holding any of the files
Init ==
    /\ index = <<>>
    /\ wt \in [Paths -> Contents \cup {Absent}]
    /\ steps = 0
    /\ objects = [k \in {HexChar[c] : c \in Contents} |-> Absent]
    /\ commits = <<>>
    /\ snapshots = <<>>
    /\ config = LOGNAME
    /\ clock = 0
    /\ tracked = <<>>
    /\ lastOp = NoReport
    /\ pending = NoPending

\* the model stops after MaxSteps commands and edits
Bounded == steps < MaxSteps

Next ==
    \/ \E p \in Paths, c \in Contents : Bounded /\ WriteFile(p, c)
    \/ \E p \in Paths : Bounded /\ Add(p)
    \/ \E p \in Paths : Bounded /\ Rm(p)
    \/ \E p \in Paths : Bounded /\ RmMissing(p)
    \/ \E d \in Dirs : Bounded /\ RmDirectory(d)
    \/ Bounded /\ Commit(clock + 1, "m")
    \/ \E list_files \in Enumerations(wt) : Bounded /\ Status(list_files)

Spec == Init /\ [][Next]_vars

----------------------------------------------------------------------------
(* The Index as its readers take it: a record is a line of the file, and   *)
(* its fields are the bytes at the fixed offsets                           *)

Lines == readlines(index)

\* line[15:55], as display_lgit_status._classify_files reads it
workingHash(line) == Slice(line, 15, 55)

\* line[56:96], as execute_lgit_commit reads it
stagedHash(line) == Slice(line, 56, 96)

\* line[97:137]
committedHash(line) == Slice(line, 97, 137)

\* line[138:] of a line without its newline, as list_lgit_files and status
\* read it
RecordPath(line) ==
    IF Len(line) > 0 /\ line[Len(line)] = NL THEN Slice(line, 138, Len(line) - 1)
    ELSE SliceFrom(line, 138)

\* the positions of the records of f that are records for exactly path p
RecordsFor(f, p) == {i \in 1..Len(readlines(f)) : RecordPath(readlines(f)[i]) = p}

HasRecord(f, p) == RecordsFor(f, p) # {}

Digests == {hashing_sha1(c) : c \in Contents}

InSeq(x, seq) == \E i \in 1..Len(seq) : seq[i] = x

----------------------------------------------------------------------------
(* Claims *)

\* C1: after a commit completes, every record of the Index (every line, read
\* at the fixed offsets) has committedHash equal to stagedHash, whatever
\* sequence of add, rm, status and commit produced the Index.
C1_CommitAdvancesEveryRecord ==
    lastOp.op = "commit" =>
        \A i \in 1..Len(Lines) : committedHash(Lines[i]) = stagedHash(Lines[i])

\* a second commit over two well-formed records, one of them committed before
\* and one that still had the sentinel
C1_Witness ==
    /\ lastOp.op = "commit"
    /\ lastOp.id = 2
    /\ Len(Lines) = 2
    /\ \A i \in 1..2 : RecordPath(Lines[i]) \in Paths /\ stagedHash(Lines[i]) \in Digests
    /\ snapshots[1] # <<>>
    /\ Len(snapshots[1]) < Len(snapshots[2])

\* C2: after add(path) completes on an existing file, the record of the path
\* has workingHash and stagedHash both equal to the digest of the file's
\* current content, for a record appended by this add as well as for a record
\* updated in place, also when the file was edited since the last add or
\* status.
C2_AddSetsBothHashes ==
    lastOp.op = "add" =>
        \A i \in RecordsFor(index, lastOp.path) :
            /\ workingHash(Lines[i]) = hashing_sha1(wt[lastOp.path])
            /\ stagedHash(Lines[i]) = hashing_sha1(wt[lastOp.path])

\* the first record for exactly path p, the one the loop of status stops at
FirstRecordFor(f, p) ==
    readlines(f)[CHOOSE i \in RecordsFor(f, p) : \A j \in RecordsFor(f, p) : i <= j]

\* C3: for every enumerated path that has a record, status puts the path in
\* the staged bucket iff the record's committedHash differs from its
\* stagedHash, and in the unstaged bucket iff its stagedHash differs from the
\* digest of the current content of the working file; the two tests are
\* independent.
C3_StatusClassifies ==
    lastOp.op = "status" =>
        \A p \in Paths :
            (wt[p] # Absent /\ HasRecord(index, p)) =>
                LET line == FirstRecordFor(index, p)
                IN  /\ InSeq(p, lastOp.staged) <=> committedHash(line) # stagedHash(line)
                    /\ InSeq(p, lastOp.unstaged) <=> stagedHash(line) # hashing_sha1(wt[p])

\* a status run that reports a path whose record was staged and whose file
\* was edited afterwards in both buckets
C3_Witness ==
    /\ lastOp.op = "status"
    /\ \E p \in Paths :
        /\ HasRecord(index, p)
        /\ InSeq(p, lastOp.staged)
        /\ InSeq(p, lastOp.unstaged)
        /\ stagedHash(FirstRecordFor(index, p)) \in Digests
        /\ workingHash(FirstRecordFor(index, p)) = hashing_sha1(wt[p])

\* C4: status reports an enumerated path as untracked iff the Index holds no
\* record for exactly that path, never reports a path as untracked together
\* with staged or unstaged, and never reports as untracked a path that was
\* added and not removed since.
C4_UntrackedIffNeverAdded ==
    lastOp.op = "status" =>
        \A p \in Paths :
            wt[p] # Absent =>
                /\ InSeq(p, lastOp.untracked) <=> ~HasRecord(index, p)
                /\ InSeq(p, lastOp.untracked) =>
                       ~InSeq(p, lastOp.staged) /\ ~InSeq(p, lastOp.unstaged)
                /\ InSeq(p, tracked) => ~InSeq(p, lastOp.untracked)

\* the records of f other than those for exactly path p, in their order
RecordsWithout(f, p) == SelectSeq(readlines(f), LAMBDA line : RecordPath(line) # p)

\* C5: rm(path) on a path that has a record and whose working file exists
\* reports success and deletes the working file and exactly the record of
\* that path: the Index is then the other records, unchanged, in the same
\* order, one right after the other from offset 0.
C5_RmDeletesExactlyThatRecord ==
    [][\A p \in Paths :
          (lastOp'.op = "rm" /\ lastOp'.path = p /\ wt[p] # Absent /\ HasRecord(index, p)) =>
              /\ lastOp'.ok
              /\ wt'[p] = Absent
              /\ index' = join(RecordsWithout(index, p))]_vars

\* C6: no add, rm or status deletes a blob or changes the content stored
\* under a digest, none of them touches a commit record or a snapshot, and
\* the blob an add stores under the digest of a file holds the file's content.
C6_BlobsAndHistoryUntouched ==
    [][/\ \A k \in DOMAIN objects : objects[k] # Absent => objects'[k] = objects[k]
       /\ lastOp'.op \in {"add", "rm", "status"} =>
              commits' = commits /\ snapshots' = snapshots
       /\ lastOp'.op = "add" =>
              objects'[BlobKey(wt[lastOp'.path])] = wt[lastOp'.path]]_vars

\* a tracked path has just been removed after a commit, and its blob, the
\* commit and the snapshot naming it are still there
C6_Witness ==
    /\ lastOp.op = "rm"
    /\ lastOp.ok
    /\ index = <<>>
    /\ DOMAIN commits = {1}
    /\ \E c \in Contents :
        /\ objects[BlobKey(c)] = c
        /\ snapshots[1] = hashing_sha1(c) \o <<SP>> \o lastOp.path \o <<NL>>

\* the snapshot lines of the records of f
SnapshotLines(f) ==
    join([i \in 1..Len(readlines(f)) |->
            stagedHash(readlines(f)[i]) \o <<SP>> \o RecordPath(readlines(f)[i]) \o <<NL>>])

\* C7: the snapshot stored under the identifier of a commit holds exactly one
\* line '<stagedHash> <path>' for each record of the Index at that commit, in
\* record order, changed since the previous commit or not, and nothing else.
C7_SnapshotListsEveryRecord ==
    lastOp.op = "commit" => snapshots[lastOp.id] = SnapshotLines(index)

\* a second commit over a record that did not change since the first
C7_Witness ==
    /\ lastOp.op = "commit"
    /\ lastOp.id = 2
    /\ snapshots[1] # <<>>
    /\ snapshots[2] = snapshots[1]
    /\ \A i \in 1..Len(Lines) : RecordPath(Lines[i]) \in Paths /\ stagedHash(Lines[i]) \in Digests

\* C8: add(path) on a path that has a record overwrites only the mtime and
\* hash fields of that record: its committedHash, path and position, the
\* number of records, the length of the Index and every byte of every other
\* record are unchanged, also when one tracked path is a suffix of another.
C8_AddUpdatesOnlyItsRecord ==
    [][\A p \in Paths :
          (lastOp'.op = "add" /\ lastOp'.path = p /\ HasRecord(index, p)) =>
              /\ Len(index') = Len(index)
              /\ Len(readlines(index')) = Len(readlines(index))
              /\ \A i \in 1..Len(readlines(index)) :
                    IF i \in RecordsFor(index, p)
                    THEN SliceFrom(readlines(index')[i], 96) = SliceFrom(readlines(index)[i], 96)
                    ELSE readlines(index')[i] = readlines(index)[i]]_vars

\* C9: add(path) on an existing file without a record for exactly that path
\* appends one record at the end of the Index, with workingHash and
\* stagedHash the digest of the file and the sentinel as committedHash, and
\* stores the blob, whatever other paths are tracked.
C9_AddAppendsNewRecord ==
    [][\A p \in Paths :
          (lastOp'.op = "add" /\ lastOp'.path = p /\ ~HasRecord(index, p)) =>
              /\ \E ts \in {format_mtime, current_time} :
                    index' = index \o line_index(p, ts, hashing_sha1(wt[p]))
              /\ objects'[BlobKey(wt[p])] = wt[p]]_vars

\* the paths of the records, in record order
RecordPaths == [i \in 1..Len(Lines) |-> RecordPath(Lines[i])]

\* C10: the Index holds at most one record per path, the records are in the
\* order in which their paths were first added since their last removal, and
\* the number of records decreases only through rm.
C10_OneRecordPerPathInAddOrder ==
    /\ [](/\ \A i, j \in 1..Len(Lines) : i # j => RecordPaths[i] # RecordPaths[j]
          /\ SelectSeq(RecordPaths, LAMBDA q : q \in Paths)
                = SelectSeq(tracked, LAMBDA q : HasRecord(index, q)))
    /\ [][Len(readlines(index')) < Len(readlines(index)) => lastOp'.op = "rm"]_vars

\* C11: add(path) on a path that has a record, while the file's content is
\* the one staged by the previous add, leaves the record identical except for
\* its mtime field (same workingHash, stagedHash, committedHash, path and
\* position), leaves the number of records unchanged, and leaves the blobs
\* of the Object Store and their contents unchanged.
C11_ReAddChangesOnlyMtime ==
    [][\A p \in Paths :
          (/\ lastOp'.op = "add" /\ lastOp'.path = p
           /\ HasRecord(index, p)
           /\ stagedHash(FirstRecordFor(index, p)) = hashing_sha1(wt[p])) =>
              /\ Len(readlines(index')) = Len(readlines(index))
              /\ \A i \in RecordsFor(index, p) :
                    SliceFrom(readlines(index')[i], 14) = SliceFrom(readlines(index)[i], 14)
              /\ objects' = objects]_vars

----------------------------------------------------------------------------
(* The life of one path: added and committed, edited, added again *)

\* the steps of the scenario and of the commands that follow it
ScenarioSteps == 9

\* the path the scenario is about: the one added first
ScenarioPath == tracked[1]

\* add(p), commit, status, an edit of p, status, add(p), status, and then any
\* commands but a commit or an rm of p
NextScenario ==
    \/ steps = 0 /\ \E p \in Paths : Add(p)
    \/ steps = 1 /\ Commit(clock + 1, "m")
    \/ steps \in {2, 4, 6} /\ \E list_files \in Enumerations(wt) : Status(list_files)
    \/ steps = 3 /\ \E c \in Contents : WriteFile(ScenarioPath, c)
    \/ steps = 5 /\ Add(ScenarioPath)
    \/ steps \in 7..(ScenarioSteps - 1) /\ \E p \in Paths, c \in Contents : WriteFile(p, c)
    \/ steps \in 7..(ScenarioSteps - 1) /\ \E p \in Paths : Add(p)
    \/ steps \in 7..(ScenarioSteps - 1) /\ \E p \in Paths \ {ScenarioPath} : Rm(p)
    \/ steps \in 7..(ScenarioSteps - 1) /\ \E p \in Paths : RmMissing(p)
    \/ steps \in 7..(ScenarioSteps - 1) /\ \E d \in Dirs : RmDirectory(d)
    \/ steps \in 7..(ScenarioSteps - 1)
          /\ \E list_files \in Enumerations(wt) : Status(list_files)

SpecScenario == Init /\ [][NextScenario]_vars

\* C12: after add(p) and a commit, status reports p neither staged nor
\* unstaged; after an edit of p, status reports p unstaged and not staged;
\* after a further add(p), status reports p staged and not unstaged, and
\* every later status reports p staged as long as no commit runs.
C12_StagedUntilCommit ==
    lastOp.op = "status" =>
        /\ steps = 3 => ~InSeq(ScenarioPath, lastOp.staged)
                        /\ ~InSeq(ScenarioPath, lastOp.unstaged)
        /\ steps = 5 => ~InSeq(ScenarioPath, lastOp.staged)
                        /\ InSeq(ScenarioPath, lastOp.unstaged)
        /\ steps = 7 => InSeq(ScenarioPath, lastOp.staged)
                        /\ ~InSeq(ScenarioPath, lastOp.unstaged)
        /\ steps > 7 => InSeq(ScenarioPath, lastOp.staged)

\* C13: rm on a path without a record (a file that does not exist, or an
\* existing file that was never added) or on a directory is a fatal error:
\* it reports failure, deletes no working file and leaves the Index content
\* exactly as it was before the call.
C13_RmWithoutRecordChangesNothing ==
    [][(/\ lastOp'.op = "rm"
        /\ lastOp'.path \in Dirs \/ ~HasRecord(index, lastOp'.path)) =>
            /\ ~lastOp'.ok
            /\ wt' = wt
            /\ index' = index]_vars

\* the enumerated paths status finds a record for, and the position of the
\* record it stops at
StatusMatches(f, tree) ==
    {i \in 1..Len(readlines(f)) :
        \E p \in Paths : /\ tree[p] # Absent
                         /\ i \in RecordsFor(f, p)
                         /\ \A j \in RecordsFor(f, p) : i <= j}

\* C14: status changes only the mtime and workingHash fields of the records
\* of the enumerated paths, and sets workingHash to the digest of the file's
\* current content: the bytes of every record from stagedHash on, every other
\* record, the number and order of the records, the length of the Index, the
\* Object Store, the commits and the snapshots are unchanged.
C14_StatusWritesOnlyWorkingHashAndMtime ==
    [][lastOp'.op = "status" =>
          /\ Len(index') = Len(index)
          /\ Len(readlines(index')) = Len(readlines(index))
          /\ \A i \in 1..Len(readlines(index)) :
                LET old == readlines(index)[i]
                    new == readlines(index')[i]
                IN  IF i \in StatusMatches(index, wt)
                    THEN /\ SliceFrom(new, 55) = SliceFrom(old, 55)
                         /\ workingHash(new) = hashing_sha1(wt[RecordPath(old)])
                         /\ Slice(new, 0, 14) = current_time
                    ELSE new = old
          /\ objects' = objects
          /\ commits' = commits
          /\ snapshots' = snapshots]_vars

\* a status run that found the file of a committed record edited and an
\* untracked file beside it: the record has the new digest as workingHash and
\* its stagedHash and committedHash as before
C14_Witness ==
    /\ lastOp.op = "status"
    /\ lastOp.untracked # <<>>
    /\ DOMAIN snapshots # {}
    /\ \E i \in StatusMatches(index, wt) :
        /\ Slice(Lines[i], 0, 14) = current_time
        /\ workingHash(Lines[i]) = hashing_sha1(wt[RecordPath(Lines[i])])
        /\ stagedHash(Lines[i]) \in Digests \ {workingHash(Lines[i])}
        /\ committedHash(Lines[i]) = stagedHash(Lines[i])

----------------------------------------------------------------------------
(* Two commits within the same millisecond *)

\* the commands of Next, and a commit whose identifier is that of the commit
\* before it
NextSameMs ==
    \/ \E p \in Paths, c \in Contents : Bounded /\ WriteFile(p, c)
    \/ \E p \in Paths : Bounded /\ Add(p)
    \/ \E p \in Paths : Bounded /\ Rm(p)
    \/ \E p \in Paths : Bounded /\ RmMissing(p)
    \/ \E d \in Dirs : Bounded /\ RmDirectory(d)
    \/ Bounded /\ Commit(clock + 1, "m")
    \/ Bounded /\ clock > 0 /\ Commit(clock, "n")
    \/ \E list_files \in Enumerations(wt) : Bounded /\ Status(list_files)

SpecSameMs == Init /\ [][NextSameMs]_vars

\* C15: when a commit is created under the identifier of an earlier commit,
\* the last write wins: the commit record under the identifier is that of
\* the later commit, and the snapshot under it holds one line per record of
\* the Index at the later commit and nothing of the earlier one.
C15_LastCommitWins ==
    lastOp.op = "commit" =>
        /\ commits[lastOp.id] = [author |-> Author(config), message |-> lastOp.message]
        /\ snapshots[lastOp.id] = SnapshotLines(index)

----------------------------------------------------------------------------
(* The author is set with lgit config *)

\* the commands of Next and lgit config --author
NextAuthor ==
    \/ \E p \in Paths, c \in Contents : Bounded /\ WriteFile(p, c)
    \/ \E p \in Paths : Bounded /\ Add(p)
    \/ \E p \in Paths : Bounded /\ Rm(p)
    \/ \E p \in Paths : Bounded /\ RmMissing(p)
    \/ \E d \in Dirs : Bounded /\ RmDirectory(d)
    \/ \E author \in Authors : Bounded /\ ConfigLgit(author)
    \/ Bounded /\ Commit(clock + 1, "m")
    \/ \E list_files \in Enumerations(wt) : Bounded /\ Status(list_files)

SpecAuthor == Init /\ [][NextAuthor]_vars

\* C16: a commit made while the configured author is empty warns and does
\* what any commit does: it writes the commit record, with an empty author
\* field, writes the snapshot of every record, and leaves committedHash equal
\* to stagedHash in every record of the Index; a commit with an author does
\* not warn.
C16_CommitWithEmptyAuthor ==
    lastOp.op = "commit" =>
        /\ lastOp.warning <=> Author(config) = <<>>
        /\ Author(config) = <<>> =>
              /\ lastOp.id \in DOMAIN commits
              /\ commits[lastOp.id] = [author |-> <<>>, message |-> lastOp.message]
              /\ lastOp.id \in DOMAIN snapshots
              /\ snapshots[lastOp.id] = SnapshotLines(index)
              /\ \A i \in 1..Len(Lines) : committedHash(Lines[i]) = stagedHash(Lines[i])

\* a commit under an empty author over a record that was staged
C16_Witness ==
    /\ lastOp.op = "commit"
    /\ lastOp.warning
    /\ config = <<NL>>
    /\ commits[lastOp.id].author = <<>>
    /\ \E i \in 1..Len(Lines) :
        /\ RecordPath(Lines[i]) \in Paths
        /\ stagedHash(Lines[i]) \in Digests
        /\ committedHash(Lines[i]) = stagedHash(Lines[i])
        /\ snapshots[lastOp.id] = stagedHash(Lines[i]) \o <<SP>> \o RecordPath(Lines[i]) \o <<NL>>

\* the position of the record status finds for path p
RecordPosition(f, p) == CHOOSE i \in RecordsFor(f, p) : \A j \in RecordsFor(f, p) : i <= j

\* bucket lists its paths in the order of their records in f
InIndexOrder(bucket, f) ==
    \A i, j \in 1..Len(bucket) :
        i < j => RecordPosition(f, bucket[i]) < RecordPosition(f, bucket[j])

\* bucket lists its paths in the order in which list_files has them
InListedOrder(bucket, list_files) ==
    bucket = SelectSeq(list_files, LAMBDA p : InSeq(p, bucket))

\* C17 as stated: within the staged and the unstaged bucket of a status
\* report, the paths are in the order of their records in the Index, also
\* when the file enumerator yields them in another order.
C17_BucketsInIndexOrder ==
    lastOp.op = "status" =>
        /\ InIndexOrder(lastOp.staged, index)
        /\ InIndexOrder(lastOp.unstaged, index)

\* C17 amended: within each bucket of a status report, the paths are in the
\* order in which the file enumerator yields them, also when the records of
\* the Index are in another order.
C17_BucketsInEnumeratorOrder ==
    lastOp.op = "status" =>
        /\ InListedOrder(lastOp.staged, lastOp.listed)
        /\ InListedOrder(lastOp.unstaged, lastOp.listed)
        /\ InListedOrder(lastOp.untracked, lastOp.listed)

\* a status report with two staged paths listed against the order of their
\* records
C17_Witness ==
    /\ lastOp.op = "status"
    /\ Len(lastOp.staged) = 2
    /\ HasRecord(index, lastOp.staged[1])
    /\ HasRecord(index, lastOp.staged[2])
    /\ RecordPosition(index, lastOp.staged[2]) < RecordPosition(index, lastOp.staged[1])
    /\ lastOp.staged = SelectSeq(lastOp.listed, LAMBDA p : InSeq(p, lastOp.staged))

----------------------------------------------------------------------------
(* An add of one process split at its read of the Index, with the commands *)
(* of another process running in between                                   *)

NextProcesses ==
    \/ \E p \in Paths, c \in Contents : Bounded /\ WriteFile(p, c)
    \/ \E p \in Paths : Bounded /\ Add(p)
    \/ \E p \in Paths : Bounded /\ BeginAdd(p)
    \/ Bounded /\ FinishAdd
    \/ Bounded /\ KillAdd
    \/ \E p \in Paths : Bounded /\ Rm(p)
    \/ \E p \in Paths : Bounded /\ RmMissing(p)
    \/ \E d \in Dirs : Bounded /\ RmDirectory(d)
    \/ Bounded /\ Commit(clock + 1, "m")
    \/ \E list_files \in Enumerations(wt) : Bounded /\ Status(list_files)

SpecProcesses == Init /\ [][NextProcesses]_vars

\* a line that is a record as add writes it and status and commit update it
WellFormed(line) ==
    /\ Len(line) > 139
    /\ Slice(line, 0, 14) \in {format_mtime, current_time}
    /\ workingHash(line) \in Digests
    /\ stagedHash(line) \in Digests
    /\ committedHash(line) \in Digests \cup {empty_hash}
    /\ \A k \in {14, 55, 96, 137} : Slice(line, k, k + 1) = <<SP>>
    /\ RecordPath(line) \in Paths
    /\ line[Len(line)] = NL

\* a record was lost or duplicated, or a field was overwritten at a wrong
\* offset
Corrupted ==
    \/ \E p \in Paths : InSeq(p, tracked) /\ Cardinality(RecordsFor(index, p)) # 1
    \/ \E i \in 1..Len(Lines) : ~WellFormed(Lines[i])

\* C18, for commands that run one after another: no state is reachable in
\* which the Index is corrupted (a record lost or duplicated, or a field
\* overwritten at a wrong offset).
C18_SequentialRunsNeverCorrupt == ~Corrupted

\* C18, for interleaved commands: an add that read an empty Index before
\* another add appended its record has written its own record over it, with
\* no rm and no path that is a suffix of another involved
C18_InterleavedCorruption ==
    /\ lastOp.op = "add"
    /\ tracked = << <<"b">>, <<"a">> >>
    /\ Len(Lines) = 1
    /\ WellFormed(Lines[1])
    /\ ~HasRecord(index, <<"b">>)

\* the Object Store holds a blob under the digest d
BlobPresent(d) ==
    \E c \in Contents : d = hashing_sha1(c) /\ objects[BlobKey(c)] # Absent

\* C19: in every state, the one between the two steps of an add included,
\* every stagedHash and every committedHash other than the sentinel in the
\* Index, and every digest of a snapshot line, names a blob of the Object
\* Store; an add that has stored its blob and not yet written its record
\* leaves a blob without a record, never a record without a blob.
C19_ReferentialIntegrity ==
    /\ \A i \in 1..Len(Lines) :
          /\ BlobPresent(stagedHash(Lines[i]))
          /\ committedHash(Lines[i]) # empty_hash => BlobPresent(committedHash(Lines[i]))
    /\ \A id \in DOMAIN snapshots :
          \A i \in 1..Len(readlines(snapshots[id])) :
              BlobPresent(Slice(readlines(snapshots[id])[i], 0, 40))
    /\ pending # NoPending => BlobPresent(pending.hash_value)

----------------------------------------------------------------------------
(* Working files deleted outside lgit *)

NextDelete ==
    \/ \E p \in Paths, c \in Contents : Bounded /\ WriteFile(p, c)
    \/ \E p \in Paths : Bounded /\ DeleteFile(p)
    \/ \E p \in Paths : Bounded /\ Add(p)
    \/ \E p \in Paths : Bounded /\ Rm(p)
    \/ \E p \in Paths : Bounded /\ RmMissing(p)
    \/ \E d \in Dirs : Bounded /\ RmDirectory(d)
    \/ Bounded /\ Commit(clock + 1, "m")
    \/ \E list_files \in Enumerations(wt) : Bounded /\ Status(list_files)

SpecDelete == Init /\ [][NextDelete]_vars

\* C20: while the working file of a path with a record is absent, rm of that
\* path fails without touching the Index, no rm, status or commit removes the
\* record or changes its mtime, workingHash, stagedHash or path, and every
\* commit lists the path with its stagedHash in its snapshot.
C20_RecordOfDeletedFileStays ==
    [][\A p \in Paths :
          (/\ wt[p] = Absent /\ wt'[p] = Absent
           /\ HasRecord(index, p)
           /\ lastOp'.op \in {"rm", "status", "commit"}) =>
              /\ (lastOp'.op = "rm" /\ lastOp'.path = p) =>
                    ~lastOp'.ok /\ index' = index
              /\ HasRecord(index', p)
              /\ Slice(FirstRecordFor(index', p), 0, 96)
                    = Slice(FirstRecordFor(index, p), 0, 96)
              /\ lastOp'.op = "commit" =>
                    InSeq(stagedHash(FirstRecordFor(index, p)) \o <<SP>> \o p \o <<NL>>,
                          readlines(snapshots'[lastOp'.id]))]_vars

====
